---- MODULE Spec2Model ----
(***************************************************************************)
(* Model of econsieve/tenkf.py: the transposed ensemble Kalman filter      *)
(* TEnKF with its forward pass batch_filter and its backward pass          *)
(* rts_smoother.                                                           *)
(*                                                                         *)
(* A numpy array is a record [shape, data].  The shape obeys numpy's rules *)
(* (matmul, broadcasting, transposition, indexing).  The data is a digest  *)
(* of the array's contents: every numeric routine (sampler, transition and *)
(* observation function, inverse, pseudo-inverse, ...) is a fixed function *)
(* of the digests of its operands, so equal computations on equal operands *)
(* give equal data and the model follows which routine the code applies to *)
(* which operands.  The arrays the object keeps (Xs, X_priors, X_bars,     *)
(* X_bar_priors, Ss) live in a heap of buffers, one digest per time step,  *)
(* and the attributes hold buffer ids, so views and copies are told apart. *)
(***************************************************************************)
EXTENDS Integers, Sequences, FiniteSets, TLC

\* ---------------------------------------------------------------- bounds
MaxT == 3          \* longest observation sequence
MaxN == 2          \* largest ensemble size
MaxDim == 2        \* largest state / observation dimension
MaxCalls == 1      \* number of batch_filter calls that precede the smoothing
MaxRuns == 2       \* number of batch_filter runs whose results are compared
RngStates == 2     \* number of states of the ambient random generator

None == -1         \* Python None where the code expects a number
NoBuf == 0         \* the attribute has never been assigned
Seeds == {None, 0, 1}
InitKinds == {"None", "ones"}
Uninit == -2        \* an element np.empty has allocated and nothing has written
Junk == {8001, 8002}   \* what reading such an element may give

\* --------------------------------------------------------------- arrays
Arr(shape, data) == [shape |-> shape, data |-> data]
NoneArr == Arr(<<>>, None)

\* digest of the result of routine number op applied to digests a and b
Dg(op, a, b) == (op * 1009 + a * a + 3 * a + 7 * b * b + 5 * b + a * b + 1) % 7919

Max(a, b) == IF a >= b THEN a ELSE b

RECURSIVE Prod(_)
Prod(s) == IF Len(s) = 0 THEN 1 ELSE Head(s) * Prod(Tail(s))
Size(a) == Prod(a.shape)


\* numpy broadcasting of two shapes
PadLeft(s, n) == [j \in 1..n |-> IF j <= n - Len(s) THEN 1 ELSE s[j - (n - Len(s))]]
CanBroadcast(s1, s2) ==
    LET n == Max(Len(s1), Len(s2))
        p1 == PadLeft(s1, n)
        p2 == PadLeft(s2, n)
    IN \A j \in 1..n : p1[j] = p2[j] \/ p1[j] = 1 \/ p2[j] = 1
BroadcastShape(s1, s2) ==
    LET n == Max(Len(s1), Len(s2))
        p1 == PadLeft(s1, n)
        p2 == PadLeft(s2, n)
    IN [j \in 1..n |-> IF p1[j] = 1 THEN p2[j] ELSE p1[j]]

\* ----------------------------------------------------- numpy operations
Zeros(n) == Arr(<<n>>, Dg(1, n, 0))
Ones(n) == Arr(<<n>>, Dg(2, n, 0))
Eye(n) == Arr(<<n, n>>, Dg(3, n, 0))
Outer(a, b) == Arr(<<Size(a), Size(b)>>, Dg(4, a.data, b.data))
Sub(a, b) == Arr(BroadcastShape(a.shape, b.shape), Dg(5, a.data, b.data))
Add(a, b) == Arr(BroadcastShape(a.shape, b.shape), Dg(6, a.data, b.data))
DivBy(a, k) == Arr(a.shape, Dg(7, a.data, k))
Scale(k, a) == Arr(a.shape, Dg(8, k, a.data))
Reverse(s) == [j \in 1..Len(s) |-> s[Len(s) + 1 - j]]
Transpose(a) == Arr(Reverse(a.shape), Dg(9, a.data, 0))
CanMatMul(a, b) == Len(a.shape) = 2 /\ Len(b.shape) = 2 /\ a.shape[2] = b.shape[1]
MatMul(a, b) == Arr(<<a.shape[1], b.shape[2]>>, Dg(10, a.data, b.data))
Item(a, j) == Arr(Tail(a.shape), Dg(11, a.data, j))
Column(a, j) == Arr(<<a.shape[1]>>, Dg(12, a.data, j))
Cov(a) == Arr(IF a.shape[1] = 1 THEN <<>> ELSE <<a.shape[1], a.shape[1]>>,
              Dg(13, a.data, 0))
MeanAxis1(a) == Arr(<<a.shape[1]>>, Dg(14, a.data, 0))
IsSquare(a) == Len(a.shape) = 2 /\ a.shape[1] = a.shape[2]
Inv(a) == Arr(a.shape, Dg(15, a.data, 0))
RollAxis2(s) == <<s[3], s[1], s[2]>>

Tinv(a) == Arr(Reverse(a.shape), Dg(21, a.data, 0))
Logpdf(x, mean, cov) == Arr(<<>>, Dg(22, x.data, Dg(22, mean.data, cov.data)))

\* buffers of the heap: T x D x N arrays, one digest per leading index
Buf(shape, data) == [shape |-> shape, data |-> data]
NoContent == Buf(<<>>, <<>>)
Empty(shape) == Buf(shape, [t \in 1..shape[1] |-> Uninit])
EmptyLike(b) == Empty(b.shape)
\* a copy that allocates and forgets to fill
CopyUnfilled(b) == EmptyLike(b)
Copy(b) == Buf(b.shape, b.data)

\* ------------------------------------------------------------- variables
VARIABLES
    N, dim_x, dim_z, seed0,        \* constructor arguments kept by the object
    selfZ, selfll,                 \* self.Z, self.ll
    Xs, X_priors, X_bars, X_bar_priors, Ss,   \* buffer ids of the attributes
    heap,                          \* the buffers, indexed by id
    rng,                           \* state of the ambient generator np.random
    pc, call,                      \* running method; call.op is the method called
                                   \* last, the other fields are the arguments of
                                   \* the most recent batch_filter call
    X, mus, epss, nz, ll,          \* locals of batch_filter
    S, SsLoc, i,                   \* locals of rts_smoother
    ret,                           \* outcome of the last finished call
    fret,                          \* outcome of the most recent batch_filter call
    calls, smooths, writes, lastWrite,   \* what the caller has done so far
    draws, predicts, visited,      \* sampler calls and loop passes of the call
    kept                           \* a result the caller has kept for comparison

objVars == <<N, dim_x, dim_z, seed0>>
attrVars == <<selfZ, selfll, Xs, X_priors, X_bars, X_bar_priors, Ss>>
filterVars == <<X, mus, epss, nz, ll>>
smoothVars == <<S, SsLoc, i>>
histVars == <<calls, smooths, writes, lastWrite, draws, predicts, visited, kept>>
vars == <<objVars, attrVars, heap, rng, pc, call, filterVars,
          smoothVars, ret, fret, histVars>>

\* self.R, self.Q, self.P, self.x as set by the constructor
SelfR == Eye(dim_z)
SelfQ == Eye(dim_x)
SelfP == Eye(dim_x)
SelfX == Zeros(dim_x)

ContentOf(h, id) == IF id = NoBuf THEN NoContent ELSE h[id]
Content(id) == ContentOf(heap, id)
\* reading element t of a buffer; an element never written reads as junk
BufItem(id, t, junk) ==
    Arr(Tail(heap[id].shape),
        IF heap[id].data[t + 1] = Uninit THEN junk ELSE heap[id].data[t + 1])
SetItem(h, id, t, a) == [h EXCEPT ![id].data[t + 1] = a.data]

\* Rebinding of the names that hold buffers.  refs are the ids that Xs,
\* X_priors, X_bars, X_bar_priors, Ss and the smoother's local Ss hold from
\* now on, h the buffers; a buffer no name holds any more is freed and the
\* ids are renumbered in the order of the names.
Keep(refs, k) == refs[k] # NoBuf /\ \A j \in 1..(k - 1) : refs[j] # refs[k]
Rank(refs, id) ==
    IF id = NoBuf THEN NoBuf
    ELSE LET first == CHOOSE k \in 1..Len(refs) : refs[k] = id /\ Keep(refs, k)
         IN Cardinality({k \in 1..first : Keep(refs, k)})
Live(refs) == Cardinality({k \in 1..Len(refs) : Keep(refs, k)})
Bind(refs, h) ==
    /\ Xs' = Rank(refs, refs[1])
    /\ X_priors' = Rank(refs, refs[2])
    /\ X_bars' = Rank(refs, refs[3])
    /\ X_bar_priors' = Rank(refs, refs[4])
    /\ Ss' = Rank(refs, refs[5])
    /\ SsLoc' = Rank(refs, refs[6])
    /\ heap' = [n \in 1..Live(refs) |->
                  h[refs[CHOOSE k \in 1..Len(refs) : Keep(refs, k) /\ Rank(refs, refs[k]) = n]]]

NoCall == [op |-> "none", T |-> 0, zlen |-> 0, init |-> "None", seed |-> None,
           store |-> FALSE, calc_ll |-> FALSE]
NoRet == [kind |-> "none", exc |-> "", line |-> 0, shape |-> <<>>, data |-> <<>>]
Raise(exc, line) == [kind |-> "raise", exc |-> exc, line |-> line,
                     shape |-> <<>>, data |-> <<>>]
NoRun == [ok |-> FALSE, args |-> NoCall, out |-> <<>>]

\* ------------------------------------------------------------ __init__
Init ==
    /\ N \in 1..MaxN
    /\ dim_x \in 1..MaxDim
    /\ dim_z \in 1..MaxDim
    /\ seed0 \in Seeds
    /\ selfZ = NoneArr /\ selfll = NoneArr
    /\ Xs = NoBuf /\ X_priors = NoBuf /\ X_bars = NoBuf
    /\ X_bar_priors = NoBuf /\ Ss = NoBuf
    /\ heap = <<>>
    /\ rng \in 0..(RngStates - 1)
    /\ pc = "idle" /\ call = NoCall
    /\ X = NoneArr /\ mus = NoneArr /\ epss = NoneArr /\ nz = 0 /\ ll = NoneArr
    /\ S = NoneArr /\ SsLoc = NoBuf /\ i = 0
    /\ ret = NoRet /\ fret = NoRet
    /\ calls = 0 /\ smooths = 0 /\ writes = 0 /\ lastWrite = "none"
    /\ draws = <<>> /\ predicts = 0 /\ visited = <<>>
    /\ kept = NoRun

\* ------------------------------------------------------------ sampler
\* multivariate(mean, cov, size): size + (len(mean),) samples drawn from the
\* ambient generator in state r; mean and cov of different length raise
MvOk(mean, cov) == Size(mean) = cov.shape[1]
Multivariate(mean, cov, size, r) ==
    Arr(size \o <<Size(mean)>>, Dg(16, r, Dg(16, mean.data, cov.data)))
NextRng(r) == (r + 1) % RngStates
DrawRec(name, mean, cov, size, r) ==
    [name |-> name, mean |-> Size(mean), cov |-> cov.shape[1], size |-> size, rng |-> r]

\* np.random.seed(s)
SeedState(s) == s % RngStates

\* truth value of a seed, value of `seed or self.seed`
Falsy(s) == s = None \/ s = 0
SeedOr(seed) == IF ~Falsy(seed) THEN seed ELSE seed0
Reseeds(seed) == ~Falsy(SeedOr(seed))

\* the arguments Z and init_states of batch_filter
ZArr(T, zlen) == Arr(<<T, zlen>>, Dg(23, T, zlen))
InitStates(kind) ==
    IF kind = "None" THEN NoneArr
    ELSE Arr(<<dim_x, N>>, IF kind = "zeros" THEN Dg(24, dim_x, N) ELSE Dg(25, dim_x, N))
\* bool(init_states) in `init_states or ...`
IsNone(a) == a.shape = <<>> /\ a.data = None
BoolRaises(a) == ~IsNone(a) /\ Size(a) > 1
Truthy(a, kind) == ~IsNone(a) /\ Size(a) = 1 /\ kind # "zeros"

\* ------------------------------------------------------- batch_filter
\* the history allocated with the member axis before the state axis
HistShapeSwapped(Z) == <<Z.shape[1], N, dim_x>>
HistShape(Z) == <<Z.shape[1], dim_x, N>>
I1 == Ones(N)
I2 == Sub(Eye(N), DivBy(Outer(I1, I1), N))

\* lines 57-83: everything before the time loop.  The line that raises, if
\* any, decides which of the assignments before it have taken effect.
BatchFilterCall(T, zlen, init, seed, store, calc_ll) ==
    /\ pc = "idle"
    /\  LET Z == ZArr(T, zlen)
            ini == InitStates(init)
            len == Len(heap)
            xs65 == Empty(HistShape(Z))
            heap1 == IF store
                     THEN heap \o <<xs65, EmptyLike(xs65), EmptyLike(xs65), EmptyLike(xs65)>>
                     ELSE heap
            r0 == IF Reseeds(seed) THEN SeedState(SeedOr(seed)) ELSE rng
            zm == Zeros(dim_z)
            size == <<Z.shape[1], N>>
            r1 == NextRng(r0)
            r2 == NextRng(r1)
            dmus == DrawRec("mus", zm, SelfR, size, r0)
            depss == DrawRec("epss", zm, SelfQ, size, r1)
            dX == DrawRec("X", SelfX, SelfP, <<N>>, r2)
            sampled == ~BoolRaises(ini) /\ ~Truthy(ini, init)
            line == IF ~MvOk(zm, SelfR) THEN 79
                    ELSE IF ~MvOk(zm, SelfQ) THEN 80
                    ELSE IF BoolRaises(ini) THEN 81
                    ELSE IF sampled /\ ~MvOk(SelfX, SelfP) THEN 81
                    ELSE 0
            XpRaw == IF store THEN len + 2 ELSE X_priors
            XbRaw == IF store THEN len + 3 ELSE X_bars
            XbpRaw == IF store THEN len + 4 ELSE X_bar_priors
        IN  /\ selfZ' = Z
            /\ IF line = 0
               THEN /\ mus' = Multivariate(zm, SelfR, size, r0)
                    /\ epss' = Multivariate(zm, SelfQ, size, r1)
                    /\ X' = IF sampled
                            THEN Transpose(Multivariate(SelfX, SelfP, <<N>>, r2))
                            ELSE ini
                    /\ rng' = IF sampled THEN NextRng(r2) ELSE r2
                    /\ draws' = IF sampled THEN <<dmus, depss, dX>> ELSE <<dmus, depss>>
                    /\ Bind(<<Len(heap1) + 1, XpRaw, XbRaw, XbpRaw, Ss, NoBuf>>,
                            Append(heap1, Empty(HistShape(Z))))
                    /\ ll' = Arr(<<>>, 0)
                    /\ pc' = "filter"
                    /\ ret' = NoRet
               ELSE /\ mus' = NoneArr /\ epss' = NoneArr /\ X' = NoneArr
                    /\ rng' = IF line = 79 THEN r0 ELSE IF line = 80 THEN r1 ELSE r2
                    /\ draws' = IF line = 79 THEN <<dmus>>
                                ELSE IF line = 80 \/ ~sampled THEN <<dmus, depss>>
                                ELSE <<dmus, depss, dX>>
                    /\ Bind(<<IF store THEN len + 1 ELSE Xs, XpRaw, XbRaw, XbpRaw, Ss, NoBuf>>,
                            heap1)
                    /\ ll' = NoneArr
                    /\ pc' = "idle"
                    /\ ret' = Raise(IF line = 81 /\ ~sampled
                                    THEN "ValueError: truth value of an array is ambiguous"
                                    ELSE "ValueError: mean and cov must have same length",
                                    line)
    /\ fret' = ret'
    /\ nz' = 0
    /\ call' = [op |-> "batch_filter", T |-> T, zlen |-> zlen, init |-> init,
                seed |-> seed, store |-> store, calc_ll |-> calc_ll]
    /\ calls' = calls + 1
    /\ predicts' = 0
    /\ lastWrite' = "none"
    /\ UNCHANGED <<objVars, selfll, S, i, smooths, writes, visited, kept>>

\* lines 88-90: the transition function applied to the columns of X in turn
RECURSIVE PredictCols(_, _, _, _)
PredictCols(Xa, eps, t, k) ==
    IF k = 0 THEN 19
    ELSE Dg(19, PredictCols(Xa, eps, t, k - 1),
            Dg(17, Column(Xa, k - 1).data, Item(Item(eps, t), k - 1).data))
Predict(Xa, eps, t) == Arr(Xa.shape, PredictCols(Xa, eps, t, Xa.shape[2]))
\* line 92: Y = self.o_func(X.T).T, the observation function applied to the rows
OFunc(Xt) == Arr(<<Xt.shape[1], dim_z>>, Dg(18, Xt.data, dim_z))

ResetFilter == X' = NoneArr /\ mus' = NoneArr /\ epss' = NoneArr /\ nz' = 0 /\ ll' = NoneArr

\* lines 85-115: one pass of the time loop, for observation number nz
FilterStep ==
    /\ pc = "filter"
    /\ nz < selfZ.shape[1]
    /\ LET z == Item(selfZ, nz)
           Xp == Predict(X, epss, nz)
           Y == Transpose(OFunc(Transpose(Xp)))
           heap1 == IF call.store THEN SetItem(heap, X_priors, nz, Xp) ELSE heap
           X_bar == MatMul(Xp, I2)
           Y_bar == MatMul(Y, I2)
           ZZ == Outer(z, I1)
           Sc == Add(Cov(Y), SelfR)
           gain == MatMul(MatMul(X_bar, Transpose(Y_bar)), Inv(Scale(N - 1, Sc)))
           d1 == Sub(ZZ, Y)
           m == Transpose(Item(mus, nz))
           innov == Sub(d1, m)
           upd == MatMul(gain, innov)
           ok102 == /\ IsSquare(Sc)
                    /\ CanBroadcast(ZZ.shape, Y.shape)
                    /\ CanBroadcast(d1.shape, m.shape)
                    /\ CanMatMul(gain, innov)
                    /\ CanBroadcast(Xp.shape, upd.shape)
                    /\ BroadcastShape(Xp.shape, upd.shape) = Xp.shape
           Xn == Arr(Xp.shape, Dg(20, Xp.data, upd.data))
           heap2 == IF call.store
                    THEN SetItem(SetItem(SetItem(heap1, X_bar_priors, nz, X_bar),
                                         X_bars, nz, MatMul(Xn, I2)),
                                 Xs, nz, Xn)
                    ELSE heap1
           z_mean == MeanAxis1(Y)
           ok112 == CanBroadcast(z.shape, z_mean.shape)
           y == Sub(z, z_mean)
       IN  /\ predicts' = predicts + 1
           /\ IF ~ok102
              THEN /\ heap' = heap1
                   /\ pc' = "idle"
                   /\ ret' = Raise("ValueError: operands could not be broadcast", 102)
                   /\ ResetFilter
              ELSE IF call.calc_ll /\ ~ok112
              THEN /\ heap' = heap2
                   /\ pc' = "idle"
                   /\ ret' = Raise("ValueError: operands could not be broadcast", 112)
                   /\ ResetFilter
              ELSE /\ heap' = IF call.calc_ll THEN heap2 ELSE SetItem(heap2, Xs, nz, Xn)
                   /\ ll' = IF call.calc_ll
                            THEN Arr(<<>>, Dg(6, ll.data, Logpdf(y, Zeros(dim_z), Sc).data))
                            ELSE ll
                   /\ X' = Xn
                   /\ nz' = nz + 1
                   /\ UNCHANGED <<pc, ret, mus, epss>>
           /\ fret' = ret'
    /\ UNCHANGED <<objVars, attrVars, rng, call, smoothVars, calls, smooths, writes,
                   lastWrite, draws, visited, kept>>

\* lines 117-121: the loop is over
FilterReturn ==
    /\ pc = "filter"
    /\ nz = selfZ.shape[1]
    /\ ret' = IF call.calc_ll
              THEN [kind |-> "scalar", exc |-> "", line |-> 119,
                    shape |-> ll.shape, data |-> <<ll.data>>]
              ELSE [kind |-> "array", exc |-> "", line |-> 121,
                    shape |-> RollAxis2(heap[Xs].shape), data |-> heap[Xs].data]
    /\ fret' = ret'
    /\ selfll' = IF call.calc_ll THEN ll ELSE selfll
    /\ pc' = "idle"
    /\ ResetFilter
    /\ UNCHANGED <<objVars, selfZ, Xs, X_priors, X_bars, X_bar_priors, Ss, heap, rng,
                   call, smoothVars, histVars>>

\* ------------------------------------------------------- rts_smoother
HasIndex(id, t) == t >= 0 /\ t < Len(heap[id].data)
\* line 126: the buffer the name Ss is bound to, given a fresh buffer id
SsTargetAlias(xs, fresh) == xs      \* Ss = self.Xs, without the copy
SsTarget(xs, fresh) == fresh
\* line 128: reversed(range(T - 1)) starts at T - 2 and counts down to 0
FirstIndex(T) == T - 2
NextIndex(k) == k - 1
\* lines 130-131
\* the step fed with the filter's posterior of step k + 1 instead of the
\* running smoothed state
SmoothStepFromPosterior(Sprev, k, junk) ==
    LET J == MatMul(BufItem(X_bars, k, junk), Tinv(BufItem(X_bar_priors, k + 1, junk)))
    IN Add(BufItem(Xs, k, junk),
           MatMul(J, Sub(BufItem(Xs, k + 1, junk), BufItem(X_priors, k + 1, junk))))
SmoothStep(Sprev, k, junk) ==
    LET J == MatMul(BufItem(X_bars, k, junk), Tinv(BufItem(X_bar_priors, k + 1, junk)))
    IN Add(BufItem(Xs, k, junk), MatMul(J, Sub(Sprev, BufItem(X_priors, k + 1, junk))))

\* lines 125-126: S = self.Xs[-1]; Ss = self.Xs.copy()
RtsCall ==
    /\ pc = "idle"
    /\ IF Xs = NoBuf
       THEN /\ ret' = Raise("AttributeError: Xs", 125)
            /\ UNCHANGED <<Xs, X_priors, X_bars, X_bar_priors, Ss, heap, pc, smoothVars>>
       ELSE LET T == heap[Xs].shape[1]
                fresh == Len(heap) + 1
                tgt == SsTarget(Xs, fresh)
            IN  /\ \E junk \in Junk : S' = BufItem(Xs, T - 1, junk)
                /\ Bind(<<Xs, X_priors, X_bars, X_bar_priors, Ss, tgt>>,
                        Append(heap, Copy(heap[Xs])))
                /\ i' = FirstIndex(T)
                /\ pc' = "smooth"
                /\ ret' = NoRet
    /\ call' = [call EXCEPT !.op = "rts_smoother"]
    /\ smooths' = smooths + 1
    /\ visited' = <<>>
    /\ lastWrite' = "none"
    /\ UNCHANGED <<objVars, selfZ, selfll, rng, filterVars, fret, calls, writes, draws,
                   predicts, kept>>

\* lines 128-133: one pass of the backward loop, for index i
RtsStep ==
    /\ pc = "smooth"
    /\ i >= 0
    /\ IF X_bars = NoBuf \/ ~HasIndex(X_bars, i) \/ ~HasIndex(X_bar_priors, i + 1)
       THEN /\ ret' = IF X_bars = NoBuf THEN Raise("AttributeError: X_bars", 130)
                      ELSE Raise("IndexError", 130)
            /\ pc' = "idle"
            /\ S' = NoneArr /\ i' = 0
            /\ Bind(<<Xs, X_priors, X_bars, X_bar_priors, Ss, NoBuf>>, heap)
            /\ UNCHANGED visited
       ELSE \E junk \in Junk :
            LET Sn == SmoothStep(S, i, junk)
            IN  /\ S' = Sn
                /\ heap' = SetItem(heap, SsLoc, i, Sn)
                /\ i' = NextIndex(i)
                /\ visited' = Append(visited, i)
                /\ UNCHANGED <<Xs, X_priors, X_bars, X_bar_priors, Ss, SsLoc, pc, ret>>
    /\ UNCHANGED <<objVars, selfZ, selfll, rng, call, filterVars, fret, calls, smooths,
                   writes, lastWrite, draws, predicts, kept>>

\* lines 135-137: self.Ss = Ss; return np.rollaxis(Ss, 2)
RtsReturn ==
    /\ pc = "smooth"
    /\ i < 0
    /\ Bind(<<Xs, X_priors, X_bars, X_bar_priors, SsLoc, NoBuf>>, heap)
    /\ ret' = [kind |-> "array", exc |-> "", line |-> 137,
               shape |-> RollAxis2(heap[SsLoc].shape), data |-> heap[SsLoc].data]
    /\ pc' = "idle"
    /\ S' = NoneArr /\ i' = 0
    /\ UNCHANGED <<objVars, selfZ, selfll, rng, call, filterVars, fret, histVars>>

\* -------------------------------------------------------- environment
\* other code draws from, or seeds, the ambient generator between two calls
AmbientRandom ==
    /\ pc = "idle"
    /\ rng' \in (0..(RngStates - 1)) \ {rng}
    /\ UNCHANGED <<objVars, attrVars, heap, pc, call, filterVars, smoothVars, ret, fret,
                   histVars>>

\* the caller assigns to an element of self.Ss or of self.Xs
CallerWrite(which, t) ==
    /\ pc = "idle"
    /\ LET id == IF which = "Ss" THEN Ss ELSE Xs
       IN  /\ id # NoBuf
           /\ t < Len(heap[id].data)
           /\ heap' = [heap EXCEPT ![id].data[t + 1] = 8000]
    /\ writes' = writes + 1
    /\ lastWrite' = which
    /\ UNCHANGED <<objVars, attrVars, rng, pc, call, filterVars, smoothVars, ret, fret,
                   calls, smooths, draws, predicts, visited, kept>>

\* the caller keeps what the last call returned, to compare a later run with it
KeepResult ==
    /\ pc = "idle"
    /\ call.op = "batch_filter"
    /\ ret.kind \in {"array", "scalar"}
    /\ kept' = [ok |-> TRUE, args |-> call, out |-> ret.data]
    /\ UNCHANGED <<objVars, attrVars, heap, rng, pc, call, filterVars, smoothVars, ret,
                   fret, calls, smooths, writes, lastWrite, draws, predicts, visited>>

\* The caller of the main specification leaves the seeds at their default
\* (None) and varies everything else.  It filters up to MaxCalls times, then
\* smooths once, then writes once into the first time step of self.Ss or of
\* self.Xs.
InitDefaultSeed == Init /\ seed0 = None /\ rng = 0
Next ==
    \/ \E T \in 1..MaxT, zlen \in 1..MaxDim, init \in InitKinds,
          store \in BOOLEAN, calc_ll \in BOOLEAN :
          /\ calls < MaxCalls /\ smooths = 0
          /\ BatchFilterCall(T, zlen, init, None, store, calc_ll)
    \/ FilterStep
    \/ FilterReturn
    \/ (smooths = 0 /\ RtsCall)
    \/ RtsStep
    \/ RtsReturn
    \/ \E which \in {"Ss", "Xs"} :
          /\ writes = 0 /\ call.op = "rts_smoother" /\ ret.kind = "array"
          /\ CallerWrite(which, 0)

Spec == InitDefaultSeed /\ [][Next]_vars

\* The caller of the second specification runs the filter MaxRuns times on
\* well-formed observations, with and without seeds, while other code uses
\* the ambient generator in between, and keeps a result to compare with.
NextDet ==
    \/ \E T \in 1..MaxT, seed \in Seeds :
          /\ calls < MaxRuns
          /\ BatchFilterCall(T, dim_z, "None", seed, FALSE, FALSE)
    \/ FilterStep
    \/ FilterReturn
    \/ AmbientRandom
    \/ KeepResult

SpecDet == Init /\ [][NextDet]_vars

\* ================================================================ claims
FilterEnded == call.op = "batch_filter" /\ pc = "idle"
FilterReturned == FilterEnded /\ ret.kind \in {"array", "scalar"}
SmootherEnded == call.op = "rts_smoother" /\ pc = "idle"
SmootherReturned == SmootherEnded /\ ret.kind = "array"
\* the most recent batch_filter call stored its history and returned
StoredRun == calls > 0 /\ call.store /\ fret.kind \in {"array", "scalar"}
HistoryIds == <<Xs, X_priors, X_bars, X_bar_priors>>
Written(id) == id # NoBuf /\ \A t \in 1..Len(heap[id].data) : heap[id].data[t] # Uninit
Elem(id, t) == Arr(<<dim_x, N>>, heap[id].data[t + 1])

\* C1: rts_smoother raises, and returns no smoothed history, whenever the
\* most recent batch_filter call (if there was one) was not made with
\* store=True.
C1_SmootherNeedsStoredHistory ==
    (/\ SmootherEnded
     /\ ~(calls > 0 /\ call.store)
     /\ N >= 2 /\ dim_x = dim_z
     /\ (calls > 0 => fret.kind \in {"array", "scalar"})) => ret.kind = "raise"

\* C2: after batch_filter(store=True) and rts_smoother, the last element of
\* the smoothed history equals the last element of the filter's posterior
\* history, and the backward loop has not visited the last index.
C2_TerminalEquivalence ==
    (SmootherReturned /\ StoredRun /\ lastWrite = "none") =>
        LET T == Len(heap[Xs].data)
        IN  /\ Len(heap[Ss].data) = T
            /\ heap[Ss].data[T] = heap[Xs].data[T]
            /\ ret.data[T] = heap[Xs].data[T]
            /\ \A k \in 1..Len(visited) : visited[k] # T - 1
C2_Witness ==
    /\ SmootherReturned /\ StoredRun /\ lastWrite = "none"
    /\ Len(heap[Xs].data) = 3
    /\ Len(visited) = 2
    /\ heap[Ss].data[2] # heap[Xs].data[2]
    /\ heap[Ss].data[3] = heap[Xs].data[3]

\* C3: with a seed given at construction or to batch_filter, two runs of
\* batch_filter on identical inputs return identical ensemble histories,
\* whatever the state of the ambient generator before each run.
C3_SeededRunsAgree ==
    (FilterReturned /\ kept.ok /\ kept.args = call /\ N >= 2
        /\ (call.seed # None \/ seed0 # None)) => ret.data = kept.out

\* C4: with N = 1, batch_filter runs no predict/update step and returns
\* neither an ensemble history nor a log-likelihood.
C4_SingleMemberRejected ==
    (N = 1 /\ dim_x = dim_z /\ call.op = "batch_filter" /\ call.zlen = dim_z) =>
        predicts = 0 /\ ~(pc = "idle" /\ ret.kind \in {"array", "scalar"})

\* C5: after batch_filter(store=True) each of Xs, X_priors, X_bars and
\* X_bar_priors has shape T x D x N with T the length of the observation
\* sequence of that call, and the arrays batch_filter (calc_ll=False) and
\* rts_smoother return both have shape N x T x D.
C5_Shapes ==
    /\ (StoredRun /\ pc # "filter") =>
          /\ selfZ.shape[1] = call.T
          /\ \A k \in 1..4 :
                /\ heap[HistoryIds[k]].shape = <<call.T, dim_x, N>>
                /\ Len(heap[HistoryIds[k]].data) = call.T
    /\ (FilterReturned /\ ret.kind = "array") => ret.shape = <<N, call.T, dim_x>>
    /\ (SmootherReturned /\ fret.kind = "array") =>
          ret.shape = fret.shape /\ ret.shape = <<N, call.T, dim_x>>
C5_Witness ==
    /\ SmootherReturned /\ StoredRun /\ fret.kind = "array"
    /\ N = 2 /\ dim_x = 1 /\ call.T = 3
    /\ ret.shape = <<2, 3, 1>>
    /\ heap[X_bar_priors].shape = <<3, 1, 2>>

\* C6: called with an explicit D x N initial ensemble, N >= 2, batch_filter
\* proceeds and enters the time loop with exactly that ensemble, having
\* drawn no initial ensemble from the sampler.
C6_ExplicitInitialEnsemble ==
    (call.op = "batch_filter" /\ call.init # "None" /\ N >= 2 /\ dim_x = dim_z) =>
        /\ ~(pc = "idle" /\ ret.kind = "raise" /\ ret.line < 85)
        /\ (pc = "filter" /\ nz = 0) => X = InitStates(call.init)
        /\ \A k \in 1..Len(draws) : draws[k].name # "X"

\* C7: a batch_filter call whose observation vectors are not of length dim_z
\* fails, before any predict or update step has run and with self.Z and the
\* history arrays as they were before the call.
C7_FailFast ==
    /\ []((call.op = "batch_filter" /\ call.zlen # dim_z /\ N >= 2 /\ dim_x = dim_z) =>
            predicts = 0 /\ (pc = "idle" => ret.kind = "raise"))
    /\ [][(pc = "idle" /\ calls' = calls + 1 /\ call'.zlen # dim_z
             /\ N >= 2 /\ dim_x = dim_z) =>
            /\ selfZ' = selfZ
            /\ ContentOf(heap', Xs') = Content(Xs)
            /\ ContentOf(heap', X_priors') = Content(X_priors)
            /\ ContentOf(heap', X_bars') = Content(X_bars)
            /\ ContentOf(heap', X_bar_priors') = Content(X_bar_priors)]_vars

\* C8: the process noise is drawn with a zero mean as long as Q is wide (the
\* state dimension), the observation noise with a zero mean as long as R is
\* wide (the observation dimension), N draws of each for each time step.
C8_NoiseDraws ==
    (call.op = "batch_filter" /\ N >= 2 /\ call.zlen = dim_z) =>
    \A k \in 1..Len(draws) :
        /\ draws[k].name = "epss" =>
              /\ draws[k].mean = draws[k].cov /\ draws[k].cov = dim_x
              /\ draws[k].size = <<call.T, N>>
        /\ draws[k].name = "mus" =>
              /\ draws[k].mean = draws[k].cov /\ draws[k].cov = dim_z
              /\ draws[k].size = <<call.T, N>>

\* C9: no step of rts_smoother changes Xs, X_priors, X_bars or X_bar_priors,
\* and Ss is a buffer of its own: a later write to Ss leaves Xs as it was and
\* a later write to Xs leaves Ss as it was.
C9_SmootherFrame ==
    [][/\ (pc = "smooth" \/ pc' = "smooth" \/ smooths' # smooths) =>
            /\ ContentOf(heap', Xs') = Content(Xs)
            /\ ContentOf(heap', X_priors') = Content(X_priors)
            /\ ContentOf(heap', X_bars') = Content(X_bars)
            /\ ContentOf(heap', X_bar_priors') = Content(X_bar_priors)
       /\ (writes' # writes /\ lastWrite' = "Ss") =>
            ContentOf(heap', Xs') = Content(Xs)
       /\ (writes' # writes /\ lastWrite' = "Xs") =>
            ContentOf(heap', Ss') = Content(Ss)]_vars
C9_Witness ==
    /\ SmootherReturned /\ StoredRun
    /\ Len(visited) = 2
    /\ lastWrite = "Ss"
    /\ heap[Ss].data[1] = 8000
    /\ heap[Xs].data[1] # 8000

\* C10: rts_smoother visits i = T-2, ..., 0 in this order, once each; the
\* running smoothed state starts as Xs[T-1] and the value recorded as Ss[i] is
\* Xs[i] + J_i (Ss[i+1] - X_priors[i+1]), J_i = X_bars[i] pinv(X_bar_priors[i+1]).
C10_BackwardRecursion ==
    /\ pc = "smooth" =>
          /\ i = Len(heap[Xs].data) - 2 - Len(visited)
          /\ (Written(Xs) /\ Written(SsLoc)) => S.data = heap[SsLoc].data[i + 2]
    /\ (SmootherReturned /\ lastWrite = "none") =>
          LET T == Len(heap[Xs].data)
          IN  /\ visited = [k \in 1..(T - 1) |-> T - 1 - k]
              /\ (\A k \in 1..4 : Written(HistoryIds[k])) =>
                    /\ heap[Ss].data[T] = heap[Xs].data[T]
                    /\ \A k \in 0..(T - 2) :
                          Elem(Ss, k) =
                              Add(Elem(Xs, k),
                                  MatMul(MatMul(Elem(X_bars, k), Tinv(Elem(X_bar_priors, k + 1))),
                                         Sub(Elem(Ss, k + 1), Elem(X_priors, k + 1))))
C10_Witness ==
    /\ SmootherReturned /\ StoredRun /\ lastWrite = "none"
    /\ visited = <<1, 0>>
    /\ heap[Ss].data[2] # heap[Xs].data[2]
    /\ heap[Ss].data[1] # heap[Xs].data[1]

====
